---- MODULE Spec2Model ----
(***************************************************************************)
(* modelgrader: the resumable evaluation loop of main(), the CSV result    *)
(* store of csv_writer.py and the percentile pass of models.py.            *)
(*                                                                         *)
(* Numbers are kept exact as scaled integers:                              *)
(*   response_time in memory : milliseconds                                *)
(*   "Response time" column  : hundredths of a second (round(t, 2))        *)
(*   weighted score          : hundredths of a point                       *)
(*   percentile in memory    : hundredths of a point                       *)
(*   "Percentile Rank" column: tenths of a point (round(p, 1))             *)
(***************************************************************************)
EXTENDS Integers, Sequences, FiniteSets, TLC

VARIABLES
    file,              \* the CSV file at settings.output_csv_path
    pc,                \* position of main(): "idle", "loop", "done", "killed";
                       \* "store" when the store operations are called directly
    run,               \* number of runs of main() started so far
    idx,               \* 1-based position of the loop in the cross product
    existing_results,  \* main(): the resume-key set loaded at start-up
    all_results,       \* main(): the in-memory accumulation
    results_table,     \* main(): identity of the rows added to the displayed table
    progress,          \* number of progress.advance(task) calls of this run
    queried,           \* loop positions for which query_model was invoked in this run
    completed,         \* loop positions whose try body ran to its end, in order
    start_len,         \* number of lines of the file when the loop of this run began
    prev,              \* how the previous run of main() ended
    last,              \* what the most recent loop step did
    failures,          \* cells that raised so far, over all runs
    scenario,          \* the collaborators' answers of this run
    ret                \* the last store operation called directly and its return value

vars == <<file, pc, run, idx, existing_results, all_results, results_table,
          progress, queried, completed, start_len, prev, last, failures,
          scenario, ret>>

----------------------------------------------------------------------------
(* Bounds *)

\* questions selected for a run
NumQuestions == 1
\* runs of main() on the same file
MaxRuns == 2
\* cells that raise, over all runs
MaxFailures == 1
\* lines of a file handed to a store operation directly
MaxLines == 3
\* results in a list handed to calculate_percentiles directly
MaxPop == 4
\* pieces of a grading text handed to _parse_grades
MaxTokens == 5

----------------------------------------------------------------------------
(* Inputs of a run *)

\* list_available_models(): distinct model ids, sorted
model_ids == <<"m1", "m2">>

\* the filtered question list of main(), by question number
questions == [i \in 1..NumQuestions |-> i]

total_tests == Len(model_ids) * Len(questions) * 2

\* as CellAt, but the cell with context comes before the cell without
CellAt_ContextFirst(i) ==
    LET m == ((i - 1) \div (2 * Len(questions))) + 1
        q == (((i - 1) \div 2) % Len(questions)) + 1
    IN  [model_id |-> model_ids[m],
         number |-> questions[q],
         with_context |-> ((i - 1) % 2 = 0)]

\* The cell visited at loop position i: model outermost, question in the
\* middle, context flag False then True innermost.
CellAt(i) ==
    LET m == ((i - 1) \div (2 * Len(questions))) + 1
        q == (((i - 1) \div 2) % Len(questions)) + 1
    IN  [model_id |-> model_ids[m],
         number |-> questions[q],
         with_context |-> ((i - 1) % 2 = 1)]

test_key(i) ==
    <<CellAt(i).model_id, CellAt(i).number, CellAt(i).with_context>>

----------------------------------------------------------------------------
(* Rounding *)

\* n/d rounded to the nearest integer, ties to even (Python's round on a
\* value that is exactly representable); n >= 0, d > 0.
RoundHalfEven(n, d) ==
    LET q == n \div d
        r == n % d
    IN  IF 2 * r < d THEN q
        ELSE IF 2 * r > d THEN q + 1
        ELSE IF q % 2 = 0 THEN q ELSE q + 1

----------------------------------------------------------------------------
(* models.py *)

\* as weighted_score, but the three scores weigh the same
weighted_score_EqualWeights(g) ==
    RoundHalfEven(10000 * (g.accuracy + g.completeness + g.clarity), 300)

\* GradeBreakdown.weighted_score, in hundredths:
\* round(accuracy*0.5 + completeness*0.25 + clarity*0.25, 2)
weighted_score(g) ==
    RoundHalfEven(5000 * g.accuracy + 2500 * g.completeness + 2500 * g.clarity, 100)

\* GradeBreakdown.total
total(g) == weighted_score(g)

\* TestResult.total_score -> GradeBreakdown.total -> weighted_score
total_score(r) == weighted_score(r.grades)

HEADER == [kind |-> "header"]

\* TestResult.to_csv_row
to_csv_row(r) ==
    [kind |-> "row",
     model |-> r.model_name,
     question |-> <<"Q", r.question_number>>,
     context |-> IF r.context_provided THEN "Yes" ELSE "No",
     accuracy |-> r.grades.accuracy,
     completeness |-> r.grades.completeness,
     clarity |-> r.grades.clarity,
     time |-> RoundHalfEven(r.response_time, 10),
     weighted |-> total_score(r),
     percentile |-> RoundHalfEven(r.percentile, 10),
     explanation |-> r.grades.explanation]

\* as SortedRank, but among equal scores the later one in the input sorts first
SortedRank_TiesReversed(results, k) ==
    Cardinality({j \in 1..Len(results) :
        \/ total_score(results[j]) < total_score(results[k])
        \/ (total_score(results[j]) = total_score(results[k]) /\ j > k)})

\* 0-indexed position of results[k] in sorted(results, key=total_score);
\* sorted() is stable, so equal scores keep their input order.
SortedRank(results, k) ==
    Cardinality({j \in 1..Len(results) :
        \/ total_score(results[j]) < total_score(results[k])
        \/ (total_score(results[j]) = total_score(results[k]) /\ j < k)})

\* as calculate_percentiles, but the rank is divided by n instead of n - 1
calculate_percentiles_OverN(results) ==
    IF results = <<>> THEN results
    ELSE LET n == Len(results)
         IN  [k \in 1..n |->
                [results[k] EXCEPT !.percentile =
                    IF n > 1
                    THEN 10 * RoundHalfEven(1000 * SortedRank(results, k), n)
                    ELSE 5000]]

\* as calculate_percentiles, but sorted_results is returned
calculate_percentiles_ReturnsSorted(results) ==
    IF results = <<>> THEN results
    ELSE LET n == Len(results)
             at(i) == CHOOSE k \in 1..n : SortedRank(results, k) = i - 1
         IN  [i \in 1..n |->
                [results[at(i)] EXCEPT !.percentile =
                    IF n > 1
                    THEN 10 * RoundHalfEven(1000 * (i - 1), n - 1)
                    ELSE 5000]]

\* calculate_percentiles
calculate_percentiles(results) ==
    IF results = <<>> THEN results
    ELSE LET n == Len(results)
         IN  [k \in 1..n |->
                [results[k] EXCEPT !.percentile =
                    IF n > 1
                    THEN 10 * RoundHalfEven(1000 * SortedRank(results, k), n - 1)
                    ELSE 5000]]

----------------------------------------------------------------------------
(* csv_writer.py *)

Absent == [exists |-> FALSE, lines |-> <<>>]

\* as initialize_csv, but without the exists() test
initialize_csv_Truncates(f) == [exists |-> TRUE, lines |-> <<HEADER>>]

\* initialize_csv
initialize_csv(f) ==
    IF ~f.exists THEN [exists |-> TRUE, lines |-> <<HEADER>>] ELSE f

\* append_result_to_csv: open(path, "a") creates the file when it is absent
append_result_to_csv(r, f) ==
    [exists |-> TRUE, lines |-> Append(f.lines, to_csv_row(r))]

\* csv.DictReader: the first line gives the field names, the others are the
\* data rows.  A data row can be read by row["Model Name"], row["Question"],
\* ... only under the real header and when it is itself a well-formed row.
DataLines(f) == IF f.lines = <<>> THEN <<>> ELSE Tail(f.lines)

Readable(f) ==
    \/ DataLines(f) = <<>>
    \/ /\ f.lines[1] = HEADER
       /\ \A k \in 1..Len(DataLines(f)) : DataLines(f)[k].kind = "row"

\* the identity triple load_existing_results builds from one row
RowKey(row) == <<row.model, row.question[2], row.context = "Yes">>

\* as load_existing_results, but the context flag is compared with "True"
\* instead of the "Yes" that to_csv_row writes
load_existing_results_WrongToken(f) ==
    IF ~f.exists THEN {}
    ELSE IF ~Readable(f) THEN {}
    ELSE {<<DataLines(f)[k].model, DataLines(f)[k].question[2],
            DataLines(f)[k].context = "True">> : k \in 1..Len(DataLines(f))}

\* as load_existing_results, but it always starts fresh
load_existing_results_Fresh(f) == {}

\* as load_existing_results, but a row that cannot be read is passed over
\* and the keys of the other rows are returned
load_existing_results_Partial(f) ==
    IF ~f.exists THEN {}
    ELSE IF f.lines = <<>> \/ f.lines[1] # HEADER THEN {}
    ELSE {RowKey(DataLines(f)[k]) :
            k \in {j \in 1..Len(DataLines(f)) : DataLines(f)[j].kind = "row"}}

\* load_existing_results
load_existing_results(f) ==
    IF ~f.exists THEN {}
    ELSE IF ~Readable(f) THEN {}
    ELSE {RowKey(DataLines(f)[k]) : k \in 1..Len(DataLines(f))}

\* as RowResult, but completeness and clarity are read from each other's column
RowResult_SwapsScores(row) ==
    [model_name |-> row.model,
     question_number |-> row.question[2],
     context_provided |-> (row.context = "Yes"),
     response_time |-> row.time * 10,
     grades |-> [accuracy |-> row.accuracy,
                 completeness |-> row.clarity,
                 clarity |-> row.completeness,
                 explanation |-> ""],
     percentile |-> row.percentile * 10]

\* the TestResult load_all_results rebuilds from one row
RowResult(row) ==
    [model_name |-> row.model,
     question_number |-> row.question[2],
     context_provided |-> (row.context = "Yes"),
     response_time |-> row.time * 10,
     grades |-> [accuracy |-> row.accuracy,
                 completeness |-> row.completeness,
                 clarity |-> row.clarity,
                 explanation |-> ""],
     percentile |-> row.percentile * 10]

\* as load_all_results, but the except branch returns the results read
\* before the row that failed
load_all_results_Partial(f) ==
    IF ~f.exists THEN <<>>
    ELSE IF f.lines = <<>> \/ f.lines[1] # HEADER THEN <<>>
    ELSE LET good == {k \in 1..Len(DataLines(f)) :
                        \A j \in 1..k : DataLines(f)[j].kind = "row"}
         IN  [k \in 1..Cardinality(good) |-> RowResult(DataLines(f)[k])]

\* load_all_results
load_all_results(f) ==
    IF ~f.exists THEN <<>>
    ELSE IF ~Readable(f) THEN <<>>
    ELSE [k \in 1..Len(DataLines(f)) |-> RowResult(DataLines(f)[k])]

\* as write_results_to_csv, but without the early return on no results
write_results_to_csv_NoGuard(results, f) ==
    [exists |-> TRUE,
     lines |-> <<HEADER>> \o [k \in 1..Len(results) |-> to_csv_row(results[k])]]

\* as write_results_to_csv, but the file is opened with "a" instead of "w"
write_results_to_csv_Appends(results, f) ==
    IF results = <<>> THEN f
    ELSE [exists |-> TRUE,
          lines |-> f.lines \o <<HEADER>>
                    \o [k \in 1..Len(results) |-> to_csv_row(results[k])]]

\* write_results_to_csv
write_results_to_csv(results, f) ==
    IF results = <<>> THEN f
    ELSE [exists |-> TRUE,
          lines |-> <<HEADER>> \o [k \in 1..Len(results) |-> to_csv_row(results[k])]]

----------------------------------------------------------------------------
(* test_runner.py: run_single_test, seen from main() *)

\* What query_model and grade_response hand back when they return: the
\* elapsed time and a GradeBreakdown.  main() sees the two calls only through
\* run_single_test returning or raising, and that is how they appear here.
Outcomes ==
    <<[response_time |-> 1234,
       grades |-> [accuracy |-> 80, completeness |-> 70, clarity |-> 60,
                   explanation |-> "Correct but terse."]],
      [response_time |-> 61007,
       grades |-> [accuracy |-> 100, completeness |-> 100, clarity |-> 100,
                   explanation |-> ""]],
      [response_time |-> 998,
       grades |-> [accuracy |-> 75, completeness |-> 80, clarity |-> 60,
                   explanation |-> "Misses the caveat."]]>>

\* The collaborators' answers during one run: which outcome the cell at
\* loop position i gets if its query and grading return, under scenario s.
Scenarios == 0..(Len(Outcomes) - 1)

OutcomeAt(s, i) == Outcomes[((i + s) % Len(Outcomes)) + 1]

\* Where the try body of one cell can raise: in query_model, in
\* grade_response, in the TestResult constructor, in append_result_to_csv,
\* or nowhere.
Stages == {"query", "grade", "result", "append", "none"}

\* the TestResult run_single_test builds for the cell at loop position i
run_single_test(i, o) ==
    [model_name |-> CellAt(i).model_id,
     question_number |-> CellAt(i).number,
     context_provided |-> CellAt(i).with_context,
     response_time |-> o.response_time,
     grades |-> o.grades,
     percentile |-> 0]

NoStep == [cell |-> 0, kind |-> "none", raised |-> "none",
           queried |-> FALSE, graded |-> FALSE, appended |-> FALSE]

NoRet == [op |-> "none"]

----------------------------------------------------------------------------
(* __init__.py: main() *)

\* lines 84-96: initialize_csv, load_existing_results, fresh progress bar,
\* table and result list
StartRun ==
    /\ pc \in {"idle", "done", "killed"}
    /\ run < MaxRuns
    /\ file' = initialize_csv(file)
    /\ existing_results' = load_existing_results(file')
    /\ all_results' = <<>>
    /\ results_table' = <<>>
    /\ progress' = 0
    /\ idx' = 1
    /\ pc' = "loop"
    /\ run' = run + 1
    /\ queried' = {}
    /\ completed' = <<>>
    /\ start_len' = Len(file'.lines)
    /\ prev' = pc
    /\ last' = NoStep
    /\ scenario' \in Scenarios
    /\ UNCHANGED <<failures, ret>>

\* as SkipCell, but a skipped cell does not advance the progress bar
SkipCell_NoAdvance ==
    /\ pc = "loop"
    /\ idx <= total_tests
    /\ test_key(idx) \in existing_results
    /\ idx' = idx + 1
    /\ last' = [NoStep EXCEPT !.cell = idx, !.kind = "skipped"]
    /\ UNCHANGED <<file, pc, run, existing_results, all_results, results_table,
                   progress, queried, completed, start_len, prev, failures,
                   scenario, ret>>

\* lines 102-111 and 136-145: the key is in existing_results
SkipCell ==
    /\ pc = "loop"
    /\ idx <= total_tests
    /\ test_key(idx) \in existing_results
    /\ progress' = progress + 1
    /\ idx' = idx + 1
    /\ last' = [NoStep EXCEPT !.cell = idx, !.kind = "skipped"]
    /\ UNCHANGED <<file, pc, run, existing_results, all_results, results_table,
                   queried, completed, start_len, prev, failures, scenario, ret>>

\* as TryCell, but an exception in the cell ends the run
TryCell_Fatal ==
    /\ \E stage \in Stages :
         LET result == run_single_test(idx, OutcomeAt(scenario, idx))
             returned == stage \in {"append", "none"}
         IN  /\ stage # "none" => failures < MaxFailures
             /\ failures' = IF stage # "none" THEN failures + 1 ELSE failures
             /\ pc' = IF stage # "none" THEN "killed" ELSE pc
             /\ all_results' = IF returned THEN Append(all_results, result)
                               ELSE all_results
             /\ results_table' = IF returned
                                 THEN Append(results_table, test_key(idx))
                                 ELSE results_table
             /\ file' = IF stage = "none" THEN append_result_to_csv(result, file)
                        ELSE file
             /\ completed' = IF stage = "none" THEN Append(completed, idx)
                             ELSE completed
             /\ last' = [cell |-> idx,
                         kind |-> IF stage = "none" THEN "ok" ELSE "failed",
                         raised |-> stage,
                         queried |-> TRUE,
                         graded |-> stage # "query",
                         appended |-> stage = "none"]
             /\ progress' = IF stage # "none" THEN progress ELSE progress + 1
             /\ idx' = IF stage # "none" THEN idx ELSE idx + 1
    /\ queried' = queried \cup {idx}
    /\ UNCHANGED <<run, existing_results, start_len, prev, scenario, ret>>

\* as TryCell, but the row is kept in memory only and left for the final write
TryCell_DeferredAppend ==
    /\ \E stage \in Stages :
         LET result == run_single_test(idx, OutcomeAt(scenario, idx))
             returned == stage \in {"append", "none"}
         IN  /\ stage # "none" => failures < MaxFailures
             /\ failures' = IF stage # "none" THEN failures + 1 ELSE failures
             /\ all_results' = IF returned THEN Append(all_results, result)
                               ELSE all_results
             /\ results_table' = IF returned
                                 THEN Append(results_table, test_key(idx))
                                 ELSE results_table
             /\ file' = file
             /\ completed' = IF stage = "none" THEN Append(completed, idx)
                             ELSE completed
             /\ last' = [cell |-> idx,
                         kind |-> IF stage = "none" THEN "ok" ELSE "failed",
                         raised |-> stage,
                         queried |-> TRUE,
                         graded |-> stage # "query",
                         appended |-> FALSE]
    /\ queried' = queried \cup {idx}
    /\ progress' = progress + 1
    /\ idx' = idx + 1
    /\ UNCHANGED <<pc, run, existing_results, start_len, prev, scenario, ret>>

\* lines 113-133 and 147-167: the try body and its except clause, for the
\* cell at the current loop position
TryCell ==
    /\ \E stage \in Stages :
         LET result == run_single_test(idx, OutcomeAt(scenario, idx))
             returned == stage \in {"append", "none"}
         IN  /\ stage # "none" => failures < MaxFailures
             /\ failures' = IF stage # "none" THEN failures + 1 ELSE failures
             /\ all_results' = IF returned THEN Append(all_results, result)
                               ELSE all_results
             /\ results_table' = IF returned
                                 THEN Append(results_table, test_key(idx))
                                 ELSE results_table
             /\ file' = IF stage = "none" THEN append_result_to_csv(result, file)
                        ELSE file
             /\ completed' = IF stage = "none" THEN Append(completed, idx)
                             ELSE completed
             /\ last' = [cell |-> idx,
                         kind |-> IF stage = "none" THEN "ok" ELSE "failed",
                         raised |-> stage,
                         queried |-> TRUE,
                         graded |-> stage # "query",
                         appended |-> stage = "none"]
    /\ queried' = queried \cup {idx}
    /\ progress' = progress + 1
    /\ idx' = idx + 1
    /\ UNCHANGED <<pc, run, existing_results, start_len, prev, scenario, ret>>

\* as RunCell, but without the look-up in existing_results
RunCell_NoResumeCheck ==
    /\ pc = "loop"
    /\ idx <= total_tests
    /\ TryCell

\* lines 102-103, 112 and 136-137, 146: the key is not in existing_results
RunCell ==
    /\ pc = "loop"
    /\ idx <= total_tests
    /\ test_key(idx) \notin existing_results
    /\ TryCell

\* as EndOfRunPass, but the percentiles are computed over the results of
\* this run, without the reload
EndOfRunPass_NoReload ==
    /\ pc = "loop"
    /\ idx = total_tests + 1
    /\ all_results' = calculate_percentiles(all_results)
    /\ file' = write_results_to_csv(all_results', file)
    /\ pc' = "done"
    /\ UNCHANGED <<run, idx, existing_results, results_table, progress, queried,
                   completed, start_len, prev, last, failures, scenario, ret>>

\* lines 169-185: load_all_results, calculate_percentiles, write_results_to_csv
EndOfRunPass ==
    /\ pc = "loop"
    /\ idx = total_tests + 1
    /\ all_results' = calculate_percentiles(load_all_results(file))
    /\ file' = write_results_to_csv(all_results', file)
    /\ pc' = "done"
    /\ UNCHANGED <<run, idx, existing_results, results_table, progress, queried,
                   completed, start_len, prev, last, failures, scenario, ret>>

\* the process is terminated between two cells; its memory is gone
Interrupt ==
    /\ pc = "loop"
    /\ pc' = "killed"
    /\ all_results' = <<>>
    /\ results_table' = <<>>
    /\ existing_results' = {}
    /\ UNCHANGED <<file, run, idx, progress, queried, completed, start_len,
                   prev, last, failures, scenario, ret>>

Init ==
    /\ file = Absent
    /\ pc = "idle"
    /\ run = 0
    /\ idx = 1
    /\ existing_results = {}
    /\ all_results = <<>>
    /\ results_table = <<>>
    /\ progress = 0
    /\ queried = {}
    /\ completed = <<>>
    /\ start_len = 0
    /\ prev = "idle"
    /\ last = NoStep
    /\ failures = 0
    /\ scenario = 0
    /\ ret = NoRet

Next ==
    \/ StartRun
    \/ SkipCell
    \/ RunCell
    \/ EndOfRunPass
    \/ Interrupt

Spec == Init /\ [][Next]_vars

\* A run that nothing terminates: the loop of main() has no blocking step of
\* its own, so each enabled step of the run is eventually taken.
NextUninterrupted ==
    \/ StartRun
    \/ SkipCell
    \/ RunCell
    \/ EndOfRunPass

LiveSpec ==
    /\ Init
    /\ [][NextUninterrupted]_vars
    /\ WF_vars(SkipCell)
    /\ WF_vars(RunCell)
    /\ WF_vars(EndOfRunPass)

----------------------------------------------------------------------------
(* The store operations of csv_writer.py called directly, on any file *)

SeqsUpTo(S, n) == UNION {[1..m -> S] : m \in 0..n}

\* results handed to append_result_to_csv and write_results_to_csv
SampleResults ==
    {run_single_test(1, Outcomes[1]),
     run_single_test(2, Outcomes[2]),
     [run_single_test(1, Outcomes[3]) EXCEPT !.percentile = 7550]}

\* a line that is neither the header nor a row
GarbageLine == [kind |-> "text", text |-> "existing content"]

LineSet == {HEADER, GarbageLine} \cup {to_csv_row(r) : r \in SampleResults}

InitialFiles ==
    {Absent} \cup {[exists |-> TRUE, lines |-> l] : l \in SeqsUpTo(LineSet, MaxLines)}

StoreFrame ==
    UNCHANGED <<pc, run, idx, existing_results, all_results, results_table,
                progress, queried, completed, start_len, prev, last, failures,
                scenario>>

CallInitialize ==
    /\ pc = "store"
    /\ file' = initialize_csv(file)
    /\ ret' = [op |-> "initialize_csv", existed |-> file.exists]
    /\ StoreFrame

CallAppend ==
    /\ pc = "store"
    /\ Len(file.lines) < MaxLines
    /\ \E r \in SampleResults :
         /\ file' = append_result_to_csv(r, file)
         /\ ret' = [op |-> "append_result_to_csv", result |-> r]
    /\ StoreFrame

CallLoadExisting ==
    /\ pc = "store"
    /\ ret' = [op |-> "load_existing_results", value |-> load_existing_results(file)]
    /\ UNCHANGED file
    /\ StoreFrame

CallLoadAll ==
    /\ pc = "store"
    /\ ret' = [op |-> "load_all_results", value |-> load_all_results(file)]
    /\ UNCHANGED file
    /\ StoreFrame

CallWrite ==
    /\ pc = "store"
    /\ \E results \in SeqsUpTo(SampleResults, MaxLines - 1) :
         /\ file' = write_results_to_csv(results, file)
         /\ ret' = [op |-> "write_results_to_csv", results |-> results,
                    existed |-> file.exists]
    /\ StoreFrame

\* main, lines 169-181, on the file as it is
CallEndOfRunPass ==
    /\ pc = "store"
    /\ all_results' = calculate_percentiles(load_all_results(file))
    /\ file' = write_results_to_csv(all_results', file)
    /\ ret' = [op |-> "end_of_run_pass", loaded |-> load_all_results(file)]
    /\ UNCHANGED <<pc, run, idx, existing_results, results_table, progress,
                   queried, completed, start_len, prev, last, failures, scenario>>

InitStore ==
    /\ file \in InitialFiles
    /\ pc = "store"
    /\ run = 0
    /\ idx = 1
    /\ existing_results = {}
    /\ all_results = <<>>
    /\ results_table = <<>>
    /\ progress = 0
    /\ queried = {}
    /\ completed = <<>>
    /\ start_len = 0
    /\ prev = "idle"
    /\ last = NoStep
    /\ failures = 0
    /\ scenario = 0
    /\ ret = NoRet

NextStore ==
    \/ CallInitialize
    \/ CallAppend
    \/ CallLoadExisting
    \/ CallLoadAll
    \/ CallWrite
    \/ CallEndOfRunPass

SpecStore == InitStore /\ [][NextStore]_vars

-----------------------------------------------------------------------------
(* calculate_percentiles called directly on a list of results *)

\* results of different and of equal weighted score: 72.5, 100, 72.5, 22.5
PercentilePool ==
    SampleResults \cup
        {[run_single_test(2, Outcomes[1]) EXCEPT !.grades.accuracy = 20,
                                                 !.grades.completeness = 30,
                                                 !.grades.clarity = 20]}

CallCalculatePercentiles ==
    /\ pc = "percentiles"
    /\ all_results' = calculate_percentiles(all_results)
    /\ ret' = [op |-> "calculate_percentiles", input |-> all_results]
    /\ UNCHANGED <<file, pc, run, idx, existing_results, results_table, progress,
                   queried, completed, start_len, prev, last, failures, scenario>>

InitPercentiles ==
    /\ file = Absent
    /\ pc = "percentiles"
    /\ run = 0
    /\ idx = 1
    /\ existing_results = {}
    /\ all_results \in SeqsUpTo(PercentilePool, MaxPop)
    /\ results_table = <<>>
    /\ progress = 0
    /\ queried = {}
    /\ completed = <<>>
    /\ start_len = 0
    /\ prev = "idle"
    /\ last = NoStep
    /\ failures = 0
    /\ scenario = 0
    /\ ret = NoRet

NextPercentiles == CallCalculatePercentiles

SpecPercentiles == InitPercentiles /\ [][NextPercentiles]_vars

----------------------------------------------------------------------------
(* gemini_grader.py: _parse_grades called directly on a grading text *)

\* A grading text is a sequence of pieces: a word followed by ":" and
\* either a signed integer (digits) or something else; chars is the
\* number of characters of the piece.
GradePieces ==
    {[label |-> "ACCURACY", digits |-> TRUE, value |-> 85, chars |-> 12],
     [label |-> "accuracy", digits |-> TRUE, value |-> 150, chars |-> 13],
     [label |-> "COMPLETENESS", digits |-> TRUE, value |-> 75, chars |-> 16],
     [label |-> "CLARITY", digits |-> TRUE, value |-> -5, chars |-> 11],
     [label |-> "CLARITY", digits |-> FALSE, value |-> 0, chars |-> 13],
     [label |-> "RESPONSE_TIME", digits |-> TRUE, value |-> 90, chars |-> 17],
     [label |-> "Justification", digits |-> FALSE, value |-> 0, chars |-> 51],
     [label |-> "AAA", digits |-> FALSE, value |-> 0, chars |-> 300]}

\* re.IGNORECASE: the label as the patterns spell it
IgnoreCase(label) == IF label = "accuracy" THEN "ACCURACY" ELSE label

\* re.search(r"<LABEL>:\s*(-?\d+)", grade_text, re.IGNORECASE): the
\* positions where the pattern matches; re.search takes the first
Matches(label, grade_text) ==
    {k \in 1..Len(grade_text) :
        /\ IgnoreCase(grade_text[k].label) = label
        /\ grade_text[k].digits}

\* int(match.group(1)) of the first match
Group1(label, grade_text) ==
    grade_text[CHOOSE k \in Matches(label, grade_text) :
                  \A j \in Matches(label, grade_text) : k <= j].value

\* min(100, max(0, v))
Clamp(v) == IF v < 0 THEN 0 ELSE IF v > 100 THEN 100 ELSE v

\* as _parse_grades, but a field that is not matched is given the score 0
_parse_grades_DefaultsMissing(grade_text) ==
    LET score(label) == IF Matches(label, grade_text) = {} THEN 0
                        ELSE Clamp(Group1(label, grade_text))
    IN  [raised |-> "none",
         grades |-> [accuracy |-> score("ACCURACY"),
                     completeness |-> score("COMPLETENESS"),
                     clarity |-> score("CLARITY"),
                     explanation |-> ""]]

\* _parse_grades; response_time_score is not a field of GradeBreakdown,
\* which drops it
_parse_grades(grade_text) ==
    IF \E label \in {"ACCURACY", "COMPLETENESS", "CLARITY", "RESPONSE_TIME"} :
           Matches(label, grade_text) = {}
    THEN [raised |-> "ValueError"]
    ELSE [raised |-> "none",
          grades |-> [accuracy |-> Clamp(Group1("ACCURACY", grade_text)),
                      completeness |-> Clamp(Group1("COMPLETENESS", grade_text)),
                      clarity |-> Clamp(Group1("CLARITY", grade_text)),
                      explanation |-> ""]]

CallParseGrades ==
    /\ pc = "parse"
    /\ ret.op = "grade_text"
    /\ ret' = [op |-> "_parse_grades", grade_text |-> ret.grade_text,
               value |-> _parse_grades(ret.grade_text)]
    /\ UNCHANGED file
    /\ StoreFrame

InitParse ==
    /\ file = Absent
    /\ pc = "parse"
    /\ run = 0
    /\ idx = 1
    /\ existing_results = {}
    /\ all_results = <<>>
    /\ results_table = <<>>
    /\ progress = 0
    /\ queried = {}
    /\ completed = <<>>
    /\ start_len = 0
    /\ prev = "idle"
    /\ last = NoStep
    /\ failures = 0
    /\ scenario = 0
    /\ ret \in {[op |-> "grade_text", grade_text |-> t] : t \in SeqsUpTo(GradePieces, MaxTokens)}

NextParse == CallParseGrades

SpecParse == InitParse /\ [][NextParse]_vars

-----------------------------------------------------------------------------
(* gemini_grader.py: grade_response called on an answer of the grading model *)

\* what model.generate_content(...).text gives: an exception, or a text
GradingAnswers ==
    {[raised |-> TRUE, grade_text |-> <<>>]}
    \cup {[raised |-> FALSE, grade_text |-> t] : t \in SeqsUpTo(GradePieces, MaxTokens)}

\* grade_response, lines 53-75: the call of the grading model, the parse,
\* then the "grading_complete" log line, which reads
\* grades.response_time_score; GradeBreakdown has no such attribute, and
\* the AttributeError is logged and raised again like any other
grade_response(answer) ==
    IF answer.raised THEN [raised |-> "generate_content"]
    ELSE LET grades == _parse_grades(answer.grade_text)
         IN  IF grades.raised # "none" THEN [raised |-> grades.raised]
             ELSE [raised |-> "AttributeError"]

CallGradeResponse ==
    /\ pc = "grade"
    /\ ret.op = "generate_content"
    /\ ret' = [op |-> "grade_response", answer |-> ret.answer,
               value |-> grade_response(ret.answer)]
    /\ UNCHANGED file
    /\ StoreFrame

InitGrade ==
    /\ file = Absent
    /\ pc = "grade"
    /\ run = 0
    /\ idx = 1
    /\ existing_results = {}
    /\ all_results = <<>>
    /\ results_table = <<>>
    /\ progress = 0
    /\ queried = {}
    /\ completed = <<>>
    /\ start_len = 0
    /\ prev = "idle"
    /\ last = NoStep
    /\ failures = 0
    /\ scenario = 0
    /\ ret \in {[op |-> "generate_content", answer |-> a] : a \in GradingAnswers}

NextGrade == CallGradeResponse

SpecGrade == InitGrade /\ [][NextGrade]_vars

-----------------------------------------------------------------------------
(* main() with the steps of the end-of-run rewrite told apart *)

\* lines 169-181 up to output_path.open("w") in write_results_to_csv:
\* load_all_results, calculate_percentiles, then the guard on no results
\* and the open, which truncates the file
RewriteOpen ==
    /\ pc = "loop"
    /\ idx = total_tests + 1
    /\ all_results' = calculate_percentiles(load_all_results(file))
    /\ IF all_results' = <<>>
       THEN file' = file /\ pc' = "done"
       ELSE file' = [exists |-> TRUE, lines |-> <<>>] /\ pc' = "rewrite"
    /\ UNCHANGED <<run, idx, existing_results, results_table, progress, queried,
                   completed, start_len, prev, last, failures, scenario, ret>>

\* csv_writer.py 183-190: writeheader, one writerow per result, and the
\* close that flushes them
RewriteClose ==
    /\ pc = "rewrite"
    /\ file' = write_results_to_csv(all_results, file)
    /\ pc' = "done"
    /\ UNCHANGED <<run, idx, existing_results, all_results, results_table,
                   progress, queried, completed, start_len, prev, last, failures,
                   scenario, ret>>

\* the process is terminated after the open and before anything is flushed
InterruptRewrite ==
    /\ pc = "rewrite"
    /\ pc' = "killed"
    /\ all_results' = <<>>
    /\ results_table' = <<>>
    /\ existing_results' = {}
    /\ UNCHANGED <<file, run, idx, progress, queried, completed, start_len,
                   prev, last, failures, scenario, ret>>

NextRewrite ==
    \/ StartRun
    \/ SkipCell
    \/ RunCell
    \/ RewriteOpen
    \/ RewriteClose
    \/ Interrupt
    \/ InterruptRewrite

SpecRewrite == Init /\ [][NextRewrite]_vars

-----------------------------------------------------------------------------
(* models.py: the score properties read from a GradeBreakdown *)

\* sub-scores GradeBreakdown accepts (ge=0, le=100): every fifth value and
\* the values next to the ends
Scores == {v \in 0..100 : v % 5 = 0} \cup {1, 2, 3, 97, 98, 99}

ReadScores ==
    /\ pc = "scores"
    /\ ret.op = "GradeBreakdown"
    /\ ret' = [op |-> "weighted_score",
               grades |-> ret.grades,
               weighted_score |-> weighted_score(ret.grades),
               total |-> total(ret.grades),
               total_score |-> total_score([grades |-> ret.grades])]
    /\ UNCHANGED file
    /\ StoreFrame

InitScores ==
    /\ file = Absent
    /\ pc = "scores"
    /\ run = 0
    /\ idx = 1
    /\ existing_results = {}
    /\ all_results = <<>>
    /\ results_table = <<>>
    /\ progress = 0
    /\ queried = {}
    /\ completed = <<>>
    /\ start_len = 0
    /\ prev = "idle"
    /\ last = NoStep
    /\ failures = 0
    /\ scenario = 0
    /\ ret \in {[op |-> "GradeBreakdown",
                  grades |-> [accuracy |-> a, completeness |-> c, clarity |-> l,
                              explanation |-> ""]] : a, c, l \in Scores}

NextScores == ReadScores

SpecScores == InitScores /\ [][NextScores]_vars

-----------------------------------------------------------------------------
(* test_runner.py: load_questions called on a directory of question files *)

\* numbers N of the files question_<N>.txt a directory may hold
QuestionNumbers == {1, 2, 3, 5, 9, 10, 11, 20, 100}

\* the decimal digits of n, as str(n) writes them
RECURSIVE Digits(_)
Digits(n) == IF n < 10 THEN <<n>> ELSE Append(Digits(n \div 10), n % 10)

\* the characters of "question_<N>.txt" from the first digit on, as codes
\* that order like the characters: "." sorts before every digit
StemChars(n) == Digits(n) \o <<-1>>

\* str comparison of two file names, which Path comparison comes to:
\* the first position where they differ decides
RECURSIVE CharsLess(_, _)
CharsLess(a, b) ==
    IF a = <<>> THEN b # <<>>
    ELSE IF b = <<>> THEN FALSE
    ELSE IF Head(a) # Head(b) THEN Head(a) < Head(b)
    ELSE CharsLess(Tail(a), Tail(b))

\* load_questions: sorted(questions_path.glob("question_*.txt")), then the
\* number of each file in that order
load_questions(numbers) ==
    LET place(n) == 1 + Cardinality({m \in numbers :
                                       CharsLess(StemChars(m), StemChars(n))})
    IN  [i \in 1..Cardinality(numbers) |->
            CHOOSE n \in numbers : place(n) = i]

CallLoadQuestions ==
    /\ pc = "questions"
    /\ ret.op = "questions_dir"
    /\ ret' = [op |-> "load_questions", numbers |-> ret.numbers,
               value |-> load_questions(ret.numbers)]
    /\ UNCHANGED file
    /\ StoreFrame

InitQuestions ==
    /\ file = Absent
    /\ pc = "questions"
    /\ run = 0
    /\ idx = 1
    /\ existing_results = {}
    /\ all_results = <<>>
    /\ results_table = <<>>
    /\ progress = 0
    /\ queried = {}
    /\ completed = <<>>
    /\ start_len = 0
    /\ prev = "idle"
    /\ last = NoStep
    /\ failures = 0
    /\ scenario = 0
    /\ ret \in {[op |-> "questions_dir", numbers |-> S] : S \in SUBSET QuestionNumbers}

NextQuestions == CallLoadQuestions

SpecQuestions == InitQuestions /\ [][NextQuestions]_vars

-----------------------------------------------------------------------------
(* test_runner.py: run_single_test called on a question, with the prompt
   it sends; query_model and grade_response return an outcome *)

\* Question objects: context_path is None or a path; the file at the path
\* is there or not, and holds text or nothing
Questions ==
    {[number |-> n, context_path |-> c.context_path, exists |-> c.exists,
      content |-> c.content] :
        n \in QuestionNumbers,
        c \in {[context_path |-> FALSE, exists |-> FALSE, content |-> ""],
                [context_path |-> TRUE, exists |-> FALSE, content |-> ""],
                [context_path |-> TRUE, exists |-> TRUE, content |-> ""],
                [context_path |-> TRUE, exists |-> TRUE, content |-> "Context text"]}}

\* Question.load_context
load_context(question) ==
    IF question.context_path /\ question.exists THEN question.content ELSE ""

None == [is_none |-> TRUE, text |-> ""]

\* create_prompt: `if context:` is false for None and for ""
create_prompt(question, context) ==
    IF ~context.is_none /\ context.text # ""
    THEN [template |-> "with context", question |-> question.number,
          context |-> context.text]
    ELSE [template |-> "without context", question |-> question.number,
          context |-> ""]

\* run_single_test, lines 77-117: the prompt sent and the TestResult built
run_single_test_prompt(model_id, question, with_context, o) ==
    LET context == IF with_context
                   THEN [is_none |-> FALSE, text |-> load_context(question)]
                   ELSE None
    IN  [prompt |-> create_prompt(question, context),
         result |-> [model_name |-> model_id,
                     question_number |-> question.number,
                     context_provided |-> with_context,
                     response_time |-> o.response_time,
                     grades |-> o.grades,
                     percentile |-> 0]]

CallRunSingleTest ==
    /\ pc = "prompt"
    /\ ret.op = "cell"
    /\ ret' = [op |-> "run_single_test", question |-> ret.question,
               value |-> run_single_test_prompt(ret.model_id, ret.question,
                                                ret.with_context, Outcomes[1])]
    /\ UNCHANGED file
    /\ StoreFrame

InitPrompt ==
    /\ file = Absent
    /\ pc = "prompt"
    /\ run = 0
    /\ idx = 1
    /\ existing_results = {}
    /\ all_results = <<>>
    /\ results_table = <<>>
    /\ progress = 0
    /\ queried = {}
    /\ completed = <<>>
    /\ start_len = 0
    /\ prev = "idle"
    /\ last = NoStep
    /\ failures = 0
    /\ scenario = 0
    /\ ret \in {[op |-> "cell", model_id |-> model_ids[m], question |-> q,
                  with_context |-> w] :
                    m \in 1..Len(model_ids), q \in Questions, w \in BOOLEAN}

NextPrompt == CallRunSingleTest

SpecPrompt == InitPrompt /\ [][NextPrompt]_vars

-----------------------------------------------------------------------------
(* Properties *)

\* the rows of the file that this run appended
AppendedThisRun == SubSeq(file.lines, start_len + 1, Len(file.lines))

\* the identity triples of the rows the file held when the loop began
KeysAtStart == {RowKey(file.lines[k]) : k \in 2..start_len}

RowsWithKey(lines, key) ==
    {k \in 1..Len(lines) : lines[k].kind = "row" /\ RowKey(lines[k]) = key}

\* C1: a cell whose identity triple is in the resume-key set loaded at
\* start-up is passed over without work: the step that visits it calls
\* neither query_model nor grade_response, appends nothing to the file and
\* adds nothing to the in-memory results; and at any point of the run no
\* such cell is among the queried ones or among the rows this run appended.
C1_ResumeSkip ==
    /\ [][(pc = "loop" /\ idx <= total_tests /\ idx' # idx
             /\ test_key(idx) \in existing_results)
           => /\ file' = file
              /\ queried' = queried
              /\ all_results' = all_results
              /\ ~last'.queried /\ ~last'.graded /\ ~last'.appended]_vars
    /\ [](pc = "loop" =>
            \A i \in 1..(idx - 1) :
                test_key(i) \in existing_results
                => /\ i \notin queried
                   /\ RowsWithKey(AppendedThisRun, test_key(i)) = {})

C1_Witness ==
    /\ pc = "loop"
    /\ last.kind = "skipped"
    /\ test_key(last.cell) \in existing_results
    /\ RowsWithKey(file.lines, test_key(last.cell)) # {}
    /\ queried # {}

\* C2: a run interrupted between two cells and restarted on the same file:
\* (a) neither the interruption nor the start-up of the next run changes
\* the file, and (b) the restarted run has queried, at every point of its
\* loop, exactly the cells visited so far whose triple had no row in the
\* file.
C2_CrashRecovery ==
    /\ [][(pc' = "killed" \/ pc = "killed") => file' = file]_vars
    /\ []((pc = "loop" /\ prev = "killed") =>
            \A i \in 1..(idx - 1) :
                (i \in queried) <=> (test_key(i) \notin KeysAtStart))

C2_Witness ==
    /\ pc = "loop"
    /\ prev = "killed"
    /\ idx = total_tests + 1
    /\ start_len > 1
    /\ queried # {}
    /\ \E i \in 1..total_tests : i \notin queried

\* C3: an exception in one cell (from query_model, grade_response, the
\* TestResult constructor or append_result_to_csv) leaves the run in its
\* loop at the next cell; a run that is not terminated from outside then
\* reaches its end-of-run pass, having visited every cell.
C3_FailureNotFatal ==
    /\ [][(pc = "loop" /\ failures' # failures)
           => (pc' = "loop" /\ idx' = idx + 1 /\ last'.cell = idx)]_vars
    /\ [](pc = "done" =>
            /\ idx = total_tests + 1
            /\ \A i \in 1..total_tests :
                  i \in queried \/ test_key(i) \in existing_results)
    /\ ((pc = "loop" /\ last.kind = "failed") ~> (pc = "done"))

C3_Witness ==
    /\ pc = "done"
    /\ last.kind = "ok"
    /\ failures > 0
    /\ \E i \in queried : i < last.cell /\ i \notin {completed[k] : k \in 1..Len(completed)}

C5_FailedCellAbsent ==
    (pc = "loop" /\ last.kind = "failed") =>
        /\ RowsWithKey(AppendedThisRun, test_key(last.cell)) = {}
        /\ \A k \in 1..Len(all_results) :
              <<all_results[k].model_name, all_results[k].question_number,
                all_results[k].context_provided>> # test_key(last.cell)

\* C6: at every cell boundary the rows this run has appended are exactly
\* the rows of the cells that completed so far, in completion order; so the
\* row of a completed cell is in the file before any later cell is queried.
C6_DurablePerItem ==
    pc = "loop" =>
        /\ Len(AppendedThisRun) = Len(completed)
        /\ \A k \in 1..Len(completed) :
              /\ completed[k] < idx
              /\ completed[k] \in queried
              /\ AppendedThisRun[k] =
                    to_csv_row(run_single_test(completed[k],
                                               OutcomeAt(scenario, completed[k])))
        /\ \A j, k \in 1..Len(completed) : j < k => completed[j] < completed[k]

C6_Witness ==
    /\ pc = "loop"
    /\ Len(completed) >= 2
    /\ idx <= total_tests
    /\ start_len > 1

\* what a row holds besides its percentile
RowButPercentile(row) == [row EXCEPT !.percentile = 0]

\* C7 (as claimed): the end-of-run pass keeps the number and order of the
\* rows and every column of every row except Percentile Rank.
C7_PassChangesOnlyPercentile ==
    [][(pc = "loop" /\ pc' = "done") =>
        /\ Len(file'.lines) = Len(file.lines)
        /\ \A k \in 1..Len(file.lines) :
              RowButPercentile(file'.lines[k]) = RowButPercentile(file.lines[k])]_vars

\* the percentile, in tenths, of row k of a population of rows: its
\* 0-indexed rank by weighted score (equal scores in file order) over n - 1
ExpectedPercentile(rows, k) ==
    LET n == Len(rows)
        below == {j \in 1..n : \/ rows[j].weighted < rows[k].weighted
                                \/ (rows[j].weighted = rows[k].weighted /\ j < k)}
    IN  IF n = 1 THEN 500
        ELSE RoundHalfEven(1000 * Cardinality(below), n - 1)

\* C8: when a run has completed and the file holds at least one row, the
\* file holds the rows it held at start-up followed by the rows this run
\* appended, and each of them carries the percentile of its rank within
\* all the rows of the file.
C8_PercentileOverAll ==
    (pc = "done" /\ DataLines(file) # <<>>) =>
        /\ Len(DataLines(file)) = (start_len - 1) + Len(completed)
        /\ \A k \in 1..Len(DataLines(file)) :
              DataLines(file)[k].percentile = ExpectedPercentile(DataLines(file), k)

C8_Witness ==
    /\ pc = "done"
    /\ start_len > 1
    /\ Len(completed) >= 1
    /\ Len(DataLines(file)) >= 3
    /\ \E j, k \in 1..Len(DataLines(file)) :
          j < k /\ DataLines(file)[j].weighted = DataLines(file)[k].weighted

\* C9: initialize_csv on a file that exists, whatever it holds, leaves the
\* file as it is.
C9_InitializeKeepsFile ==
    [][(ret'.op = "initialize_csv" /\ file.exists) => file' = file]_vars

C9_Witness ==
    /\ ret.op = "initialize_csv"
    /\ ret.existed
    /\ file.exists
    /\ Len(file.lines) >= 2
    /\ file.lines[1] = GarbageLine

\* C10: write_results_to_csv with no results leaves an absent file absent
\* and an existing file as it is.
C10_EmptyWriteIsNoOp ==
    [][(ret'.op = "write_results_to_csv" /\ ret'.results = <<>>) => file' = file]_vars

C10_Witness ==
    /\ ret.op = "write_results_to_csv"
    /\ ret.results = <<>>
    /\ ret.existed
    /\ Len(file.lines) >= 2
    /\ file.lines[2].kind = "row"

\* the identity triple of a result
ResultKey(r) == <<r.model_name, r.question_number, r.context_provided>>

\* C11: write_results_to_csv with at least one result leaves a file that
\* is the header followed by one row per result, in the order given,
\* whatever the file held before.
C11_WriteReplacesFile ==
    [][(ret'.op = "write_results_to_csv" /\ ret'.results # <<>>) =>
        /\ file'.exists
        /\ Len(file'.lines) = 1 + Len(ret'.results)
        /\ file'.lines[1] = HEADER
        /\ \A k \in 1..Len(ret'.results) :
              LET row == file'.lines[k + 1]
                  r == ret'.results[k]
              IN  /\ row.kind = "row"
                  /\ row.model = r.model_name
                  /\ row.question = <<"Q", r.question_number>>
                  /\ row.context = (IF r.context_provided THEN "Yes" ELSE "No")
                  /\ row.accuracy = r.grades.accuracy
                  /\ row.completeness = r.grades.completeness
                  /\ row.clarity = r.grades.clarity
                  /\ row.explanation = r.grades.explanation]_vars

C11_Witness ==
    /\ ret.op = "write_results_to_csv"
    /\ ret.existed
    /\ Len(ret.results) = 2
    /\ ret.results[1] # ret.results[2]
    /\ Len(file.lines) = 3

\* a file as initialize_csv and a sequence of append_result_to_csv calls
\* leave it: the header, then rows of appended results
Initialized(f) ==
    /\ f.exists
    /\ f.lines # <<>>
    /\ f.lines[1] = HEADER
    /\ \A k \in 2..Len(f.lines) : \E r \in SampleResults : f.lines[k] = to_csv_row(r)

\* the results whose rows the file holds
Appended(f) == {r \in SampleResults : \E k \in 2..Len(f.lines) : f.lines[k] = to_csv_row(r)}

\* C12: on an initialized file load_existing_results returns exactly the
\* set of the identity triples of the appended results; each append adds
\* one line, also when its triple is already there.
C12_ResumeKeys ==
    /\ []((ret.op = "load_existing_results" /\ Initialized(file)) =>
            ret.value = {ResultKey(r) : r \in Appended(file)})
    /\ [][ret'.op = "append_result_to_csv" =>
            Len(file'.lines) = Len(file.lines) + 1]_vars

C12_Witness ==
    /\ ret.op = "load_existing_results"
    /\ Initialized(file)
    /\ Len(file.lines) = 3
    /\ file.lines[2] # file.lines[3]
    /\ Cardinality(Appended(file)) = 2
    /\ Cardinality(ret.value) = 1

\* C13: on an initialized file load_all_results returns one result per
\* row, in file order, with the model name, question number, context flag,
\* accuracy, completeness and clarity of the appended result.
C13_RoundTrip ==
    (ret.op = "load_all_results" /\ Initialized(file)) =>
        /\ Len(ret.value) = Len(file.lines) - 1
        /\ \A k \in 1..Len(ret.value) :
              \E r \in SampleResults :
                  /\ file.lines[k + 1] = to_csv_row(r)
                  /\ ret.value[k].model_name = r.model_name
                  /\ ret.value[k].question_number = r.question_number
                  /\ ret.value[k].context_provided = r.context_provided
                  /\ ret.value[k].grades.accuracy = r.grades.accuracy
                  /\ ret.value[k].grades.completeness = r.grades.completeness
                  /\ ret.value[k].grades.clarity = r.grades.clarity

C13_Witness ==
    /\ ret.op = "load_all_results"
    /\ Initialized(file)
    /\ Len(ret.value) = 2
    /\ ret.value[1].context_provided # ret.value[2].context_provided
    /\ ret.value[1].grades.completeness # ret.value[1].grades.clarity

\* a data line exists that row["Model Name"], row["Question"] and
\* row["Context Provided"] cannot be read from
UnreadableRow(f) ==
    /\ Len(f.lines) >= 2
    /\ \/ f.lines[1] # HEADER
       \/ \E k \in 2..Len(f.lines) : f.lines[k].kind # "row"

\* C14: load_existing_results returns the empty set for an absent file and
\* for a file with a row it cannot read (not the keys of the rows it could
\* read), and leaves the file as it is.
C14_LoadKeysDegrades ==
    [][ret'.op = "load_existing_results" =>
        /\ file' = file
        /\ (~file.exists => ret'.value = {})
        /\ (UnreadableRow(file) => ret'.value = {})]_vars

C14_Witness ==
    /\ ret.op = "load_existing_results"
    /\ Len(file.lines) = 3
    /\ file.lines[1] = HEADER
    /\ file.lines[2].kind = "row"
    /\ file.lines[3] = GarbageLine
    /\ ret.value = {}

\* the keys of the cross product written out as the nesting says: for each
\* model, for each question, the key without context, then the key with
RECURSIVE QuestionKeys(_, _)
QuestionKeys(m, q) ==
    IF q > Len(questions) THEN <<>>
    ELSE <<<<model_ids[m], questions[q], FALSE>>, <<model_ids[m], questions[q], TRUE>>>>
         \o QuestionKeys(m, q + 1)

RECURSIVE ModelKeys(_)
ModelKeys(m) ==
    IF m > Len(model_ids) THEN <<>>
    ELSE QuestionKeys(m, 1) \o ModelKeys(m + 1)

NestingOrder == ModelKeys(1)

\* a step of the loop that handles one cell
CellStep == pc = "loop" /\ idx' # idx

C16_ProgressPerCell ==
    /\ [][pc = "loop" =>
            IF CellStep THEN progress' = progress + 1 ELSE progress' = progress]_vars
    /\ [](pc = "done" => progress = 2 * Len(model_ids) * Len(questions))

C16_Witness ==
    /\ pc = "done"
    /\ existing_results # {}
    /\ completed # <<>>
    /\ Cardinality(queried) > Len(completed)
    /\ progress = 2 * Len(model_ids) * Len(questions)

\* the rankings of n results: each position 0..n-1 given once
Rankings(n) == {rk \in [1..n -> 0..(n - 1)] : \A j, k \in 1..n : rk[j] = rk[k] => j = k}

\* rk ranks the results ascending by weighted score, equal scores in input order
StableAscending(rk, results) ==
    \A j, k \in 1..Len(results) :
        \/ total_score(results[j]) < total_score(results[k])
        \/ (total_score(results[j]) = total_score(results[k]) /\ j < k)
        => rk[j] < rk[k]

\* C17: calculate_percentiles gives the result at 0-indexed rank i of the
\* stable ascending sort by weighted score the percentile
\* round(100 * i / (n - 1), 1) when n >= 2, and 50.0 when n = 1; results of
\* equal score get different percentiles, the earlier one the lower.
C17_PercentileFormula ==
    ret.op = "calculate_percentiles" =>
        LET n == Len(ret.input)
        IN  /\ n = 1 => all_results[1].percentile = 5000
            /\ n >= 2 =>
                  \E rk \in Rankings(n) :
                      /\ StableAscending(rk, ret.input)
                      /\ \A k \in 1..n :
                            all_results[k].percentile =
                                10 * RoundHalfEven(1000 * rk[k], n - 1)

C17_Witness ==
    /\ ret.op = "calculate_percentiles"
    /\ Len(ret.input) = 4
    /\ \E j, k \in 1..4 :
          /\ j < k
          /\ total_score(ret.input[j]) = total_score(ret.input[k])
          /\ all_results[j].percentile = 3330
          /\ all_results[k].percentile = 6670

\* C18: for n >= 2 results the lowest percentile is 0.0, the highest is
\* 100.0, every percentile is in [0, 100], and a result of strictly
\* higher weighted score never has the lower percentile.
C18_PercentileRange ==
    (ret.op = "calculate_percentiles" /\ Len(ret.input) >= 2) =>
        LET n == Len(ret.input)
        IN  /\ \E k \in 1..n : all_results[k].percentile = 0
            /\ \E k \in 1..n : all_results[k].percentile = 10000
            /\ \A k \in 1..n : all_results[k].percentile \in 0..10000
            /\ \A j, k \in 1..n :
                  total_score(ret.input[j]) > total_score(ret.input[k]) =>
                      all_results[j].percentile >= all_results[k].percentile

C18_Witness ==
    /\ ret.op = "calculate_percentiles"
    /\ Len(ret.input) = 3
    /\ total_score(ret.input[1]) > total_score(ret.input[2])
    /\ total_score(ret.input[2]) > total_score(ret.input[3])
    /\ all_results[1].percentile = 10000
    /\ all_results[2].percentile = 5000
    /\ all_results[3].percentile = 0

\* C19: calculate_percentiles returns the results it was given, in the
\* order given, each equal to its input but for the percentile (so with the
\* same weighted score), and returns an empty list as it is.
C19_OnlyPercentileChanges ==
    ret.op = "calculate_percentiles" =>
        /\ Len(all_results) = Len(ret.input)
        /\ \A k \in 1..Len(ret.input) :
              /\ [all_results[k] EXCEPT !.percentile = ret.input[k].percentile]
                    = ret.input[k]
              /\ total_score(all_results[k]) = total_score(ret.input[k])
        /\ ret.input = <<>> => all_results = <<>>

C19_Witness ==
    /\ ret.op = "calculate_percentiles"
    /\ Len(ret.input) = 3
    /\ total_score(ret.input[1]) > total_score(ret.input[2])
    /\ ret.input[1].context_provided # ret.input[2].context_provided
    /\ all_results[1].percentile # ret.input[1].percentile
    /\ all_results[3].percentile # ret.input[3].percentile

\* the label, in any case, is somewhere in the text followed by a signed integer
Located(label, grade_text) ==
    \E k \in 1..Len(grade_text) :
        /\ grade_text[k].digits
        /\ \/ grade_text[k].label = label
           \/ (label = "ACCURACY" /\ grade_text[k].label = "accuracy")

\* C20: _parse_grades returns a GradeBreakdown exactly when ACCURACY,
\* COMPLETENESS and CLARITY are each located in the text followed by a
\* signed integer, in any order and whatever else the text holds; it
\* raises only when one of the three is not located.
C20_ThreeLabelsSuffice ==
    ret.op = "_parse_grades" =>
        (ret.value.raised = "none" <=>
            \A label \in {"ACCURACY", "COMPLETENESS", "CLARITY"} :
                Located(label, ret.grade_text))

\* the integer written after the first occurrence of the label
Written(label, grade_text) ==
    LET at == {k \in 1..Len(grade_text) :
                  /\ grade_text[k].digits
                  /\ \/ grade_text[k].label = label
                     \/ (label = "ACCURACY" /\ grade_text[k].label = "accuracy")}
    IN  grade_text[CHOOSE k \in at : \A j \in at : k <= j].value

\* C21: for every text that gives accuracy, completeness and clarity as
\* signed integers _parse_grades returns a GradeBreakdown, and each of its
\* scores is min(100, max(0, v)) of the integer v written; a value out of
\* [0, 100] is clamped, not rejected.
C21_Clamping ==
    (/\ ret.op = "_parse_grades"
     /\ \A label \in {"ACCURACY", "COMPLETENESS", "CLARITY"} :
           Located(label, ret.grade_text)) =>
        LET clamped(label) ==
                LET v == Written(label, ret.grade_text)
                IN  IF v > 100 THEN 100 ELSE IF v < 0 THEN 0 ELSE v
        IN  /\ ret.value.raised = "none"
            /\ ret.value.grades.accuracy = clamped("ACCURACY")
            /\ ret.value.grades.completeness = clamped("COMPLETENESS")
            /\ ret.value.grades.clarity = clamped("CLARITY")

\* C22: _parse_grades raises whenever accuracy, completeness or clarity is
\* not in the text with an integer, whichever of them it is and whatever
\* else the text holds; it returns no GradeBreakdown with a default score.
C22_MissingFieldRaises ==
    (/\ ret.op = "_parse_grades"
     /\ \E label \in {"ACCURACY", "COMPLETENESS", "CLARITY"} :
           ~Located(label, ret.grade_text)) =>
        ret.value.raised = "ValueError"

C22_Witness ==
    /\ ret.op = "_parse_grades"
    /\ Len(ret.grade_text) = 4
    /\ Located("ACCURACY", ret.grade_text)
    /\ Located("COMPLETENESS", ret.grade_text)
    /\ Located("RESPONSE_TIME", ret.grade_text)
    /\ \E k \in 1..4 : ret.grade_text[k].label = "CLARITY" /\ ~ret.grade_text[k].digits
    /\ ret.value.raised = "ValueError"

\* the text holds, after its last integer, a piece of more than 200 characters
LongFreeText(grade_text) ==
    \E k \in 1..Len(grade_text) :
        /\ ~grade_text[k].digits
        /\ grade_text[k].chars > 200
        /\ \A j \in 1..Len(grade_text) : grade_text[j].digits => j < k

\* len(e) and e.endswith("...") of the explanation "", the only one
\* _parse_grades returns
ExplanationChars(e) == CASE e = "" -> 0

EndsWithEllipsis(e) == CASE e = "" -> FALSE

\* C23: the explanation of every GradeBreakdown _parse_grades returns has
\* at most 200 characters, and when the free text after the scores is
\* longer the explanation is cut and ends with "...".
C23_ExplanationTruncated ==
    (ret.op = "_parse_grades" /\ ret.value.raised = "none") =>
        /\ ExplanationChars(ret.value.grades.explanation) <= 200
        /\ LongFreeText(ret.grade_text) =>
              EndsWithEllipsis(ret.value.grades.explanation)

\* C24: for sub-scores in [0, 100] the weighted score (in hundredths) is
\* exactly (2 * accuracy + completeness + clarity) / 4, lies in [0, 100],
\* and total and total_score are the same value.
C24_WeightedScore ==
    ret.op = "weighted_score" =>
        /\ 4 * ret.weighted_score =
              100 * (2 * ret.grades.accuracy + ret.grades.completeness
                     + ret.grades.clarity)
        /\ ret.weighted_score \in 0..10000
        /\ ret.total = ret.weighted_score
        /\ ret.total_score = ret.weighted_score

C24_Witness ==
    /\ ret.op = "weighted_score"
    /\ ret.grades.accuracy = 80
    /\ ret.grades.completeness = 70
    /\ ret.grades.clarity = 60
    /\ ret.weighted_score = 7250
    /\ ret.total_score = 7250

\* C25: load_questions returns the questions in ascending order of their
\* number, for any set of files question_<N>.txt, N >= 10 included.
C25_QuestionsAscending ==
    ret.op = "load_questions" =>
        /\ Len(ret.value) = Cardinality(ret.numbers)
        /\ \A i, j \in 1..Len(ret.value) : i < j => ret.value[i] < ret.value[j]

\* the results a file holds rows of: identity triple and the three scores
RowsHeld(f) ==
    {<<f.lines[k].model, f.lines[k].question, f.lines[k].context,
       f.lines[k].accuracy, f.lines[k].completeness, f.lines[k].clarity>> :
        k \in {j \in 1..Len(f.lines) : f.lines[j].kind = "row"}}

\* C26: no step of a run, the steps of the end-of-run rewrite included,
\* takes a row out of the file: a result that had a row before the step
\* has one after it, so a process terminated at any point leaves every
\* appended result in the file.
C26_NoRowLost ==
    [][RowsHeld(file) \subseteq RowsHeld(file')]_vars

\* C27: when load_all_results cannot read a row of the file, the
\* end-of-run pass (reload, percentiles of nothing, write of nothing)
\* leaves the file exactly as it was; the rows are not truncated.
C27_FailedReloadKeepsFile ==
    [][(ret'.op = "end_of_run_pass" /\ UnreadableRow(file)) =>
        /\ ret'.loaded = <<>>
        /\ file' = file]_vars

C27_Witness ==
    /\ ret.op = "end_of_run_pass"
    /\ ret.loaded = <<>>
    /\ Len(file.lines) = 3
    /\ file.lines[1] = HEADER
    /\ file.lines[2].kind = "row"
    /\ file.lines[3] = GarbageLine

\* C28: when the grading model answers and _parse_grades returns a
\* GradeBreakdown for its text, grade_response returns that
\* GradeBreakdown; it raises only when the call or the parse raised.
C28_GradeResponseReturns ==
    ret.op = "grade_response" =>
        LET parsed == _parse_grades(ret.answer.grade_text)
        IN  IF ~ret.answer.raised /\ parsed.raised = "none"
            THEN ret.value = parsed
            ELSE ret.value.raised # "none"

\* C29: a result with context_provided = True comes from a prompt that
\* holds the question's context text; the with-context cell of a question
\* whose context file is missing or empty does not give a
\* context-provided result from the prompt without context.
C29_ContextFlagMatchesPrompt ==
    (ret.op = "run_single_test" /\ ret.value.result.context_provided) =>
        /\ ret.value.prompt.template = "with context"
        /\ ret.question.context_path /\ ret.question.exists
        /\ ret.question.content # ""
        /\ ret.value.prompt.context = ret.question.content

\* C30: at every cell boundary of a run the in-memory results, and the
\* keys shown in the results table, are those of the rows this run has
\* appended to the file, one for one and in order.
C30_MemoryAgreesWithStore ==
    pc = "loop" =>
        /\ Len(all_results) = Len(AppendedThisRun)
        /\ Len(results_table) = Len(AppendedThisRun)
        /\ \A k \in 1..Len(AppendedThisRun) :
              /\ to_csv_row(all_results[k]) = AppendedThisRun[k]
              /\ results_table[k] = RowKey(AppendedThisRun[k])

====
